---- MODULE Spec2Model ----
(***************************************************************************)
(* desida.prodjobs: queue job accounting of a spectroscopic production.    *)
(*                                                                         *)
(* Strings whose characters the code inspects (ELAPSED, STATE,             *)
(* CONSTRAINTS, log file paths) are sequences of one-character strings;    *)
(* strings only compared for equality (JOBDESC, CPUGPU) are TLA+ strings.  *)
(* NODE_HOURS of the queue table is an integer number of 1e-4 hours (the   *)
(* code rounds it to 4 decimals); NODE_HOURS and PERCENT of the summary    *)
(* are integer tenths (the code rounds them to 1 decimal).                 *)
(***************************************************************************)
EXTENDS Integers, Sequences, FiniteSets, TLC

(***************************************************************************)
(* Python string primitives used by the code                               *)
(***************************************************************************)

Digits == <<"0", "1", "2", "3", "4", "5", "6", "7", "8", "9">>

IsDigit(c) == \E i \in 1..Len(Digits) : Digits[i] = c

DigitVal(c) == (CHOOSE i \in 1..Len(Digits) : Digits[i] = c) - 1

\* The characters of the modelled strings, in code point order (sorted()
\* compares strings code point by code point).
Ascii ==
    <<" ", "&", "+", "-", ".", "/",
      "0", "1", "2", "3", "4", "5", "6", "7", "8", "9", ":",
      "A", "C", "D", "E", "F", "I", "L", "M", "N", "O", "P", "R", "T", "U", "Y",
      "_",
      "a", "b", "c", "d", "g", "h", "i", "k", "l", "m", "n", "o", "p", "r",
      "u", "x", "y", "z">>

CodePoint(c) == CHOOSE i \in 1..Len(Ascii) : Ascii[i] = c

\* s < t for Python strings
StrLess(s, t) ==
    \E k \in 0..Len(s) :
        /\ k <= Len(t)
        /\ \A j \in 1..k : s[j] = t[j]
        /\ \/ (k = Len(s) /\ k < Len(t))
           \/ (k < Len(s) /\ k < Len(t) /\ CodePoint(s[k + 1]) < CodePoint(t[k + 1]))

\* sorted(S) for a set of strings
RECURSIVE sorted(_)
sorted(S) ==
    IF S = {} THEN <<>>
    ELSE LET m == CHOOSE x \in S : \A y \in S \ {x} : StrLess(x, y)
         IN  <<m>> \o sorted(S \ {m})

\* s.split(sep) for a one-character separator
RECURSIVE split(_, _)
split(s, sep) ==
    IF \E i \in 1..Len(s) : s[i] = sep
    THEN LET i == CHOOSE i \in 1..Len(s) :
                      s[i] = sep /\ \A j \in 1..(i - 1) : s[j] # sep
         IN  <<SubSeq(s, 1, i - 1)>> \o split(SubSeq(s, i + 1, Len(s)), sep)
    ELSE <<s>>

\* s.strip() (blanks only)
RECURSIVE strip(_)
strip(s) ==
    IF s # <<>> /\ s[1] = " " THEN strip(Tail(s))
    ELSE IF s # <<>> /\ s[Len(s)] = " " THEN strip(SubSeq(s, 1, Len(s) - 1))
    ELSE s

\* the digits of a literal, underscores removed
RECURSIVE DigitsValue(_, _)
DigitsValue(s, acc) ==
    IF s = <<>> THEN acc
    ELSE IF s[1] = "_" THEN DigitsValue(Tail(s), acc)
    ELSE DigitsValue(Tail(s), 10 * acc + DigitVal(s[1]))

\* the unsigned part of an integer literal: digits, single underscores
\* between digits
IsIntBody(b) ==
    /\ b # <<>>
    /\ \A i \in 1..Len(b) :
          \/ IsDigit(b[i])
          \/ /\ b[i] = "_"
             /\ 1 < i /\ i < Len(b)
             /\ IsDigit(b[i - 1]) /\ IsDigit(b[i + 1])

\* int(s): [ok |-> FALSE] stands for ValueError
int(s) ==
    LET t    == strip(s)
        sgn  == t # <<>> /\ (t[1] = "+" \/ t[1] = "-")
        body == IF sgn THEN Tail(t) ELSE t
    IN  IF IsIntBody(body)
        THEN [ok |-> TRUE,
              val |-> IF sgn /\ t[1] = "-" THEN 0 - DigitsValue(body, 0)
                      ELSE DigitsValue(body, 0)]
        ELSE [ok |-> FALSE, val |-> 0]

\* np.char.startswith(s, p)
startswith(s, p) == Len(p) <= Len(s) /\ SubSeq(s, 1, Len(p)) = p

\* np.char.count(s, sub) > 0
contains(s, sub) ==
    \E i \in 1..(Len(s) - Len(sub) + 1) : SubSeq(s, i, i + Len(sub) - 1) = sub

\* os.path.basename(path)
basename(path) ==
    IF \E i \in 1..Len(path) : path[i] = "/"
    THEN LET i == CHOOSE i \in 1..Len(path) :
                      path[i] = "/" /\ \A j \in (i + 1)..Len(path) : path[j] # "/"
         IN  SubSeq(path, i + 1, Len(path))
    ELSE path

\* os.path.splitext(name)[0]: the extension starts at the last dot, unless
\* only dots precede it
splitext_root(name) ==
    IF \E i \in 1..Len(name) : name[i] = "." /\ \E j \in 1..(i - 1) : name[j] # "."
    THEN LET i == CHOOSE i \in 1..Len(name) :
                      name[i] = "." /\ \A j \in (i + 1)..Len(name) : name[j] # "."
         IN  IF \E j \in 1..(i - 1) : name[j] # "." THEN SubSeq(name, 1, i - 1)
             ELSE name
    ELSE name

\* round to the nearest integer, ties to even, of num/den (den > 0): numpy's
\* round, on the exact value
RoundHalfEven(num, den) ==
    LET a == IF num < 0 THEN 0 - num ELSE num
        f == a \div den
        r == a % den
        m == IF 2 * r < den THEN f
             ELSE IF 2 * r > den THEN f + 1
             ELSE IF f % 2 = 0 THEN f ELSE f + 1
    IN  IF num < 0 THEN 0 - m ELSE m


(***************************************************************************)
(* Strings of the accounting data                                          *)
(***************************************************************************)

S_COMPLETED == <<"C", "O", "M", "P", "L", "E", "T", "E", "D">>
S_TIMEOUT == <<"T", "I", "M", "E", "O", "U", "T">>
S_FAILED == <<"F", "A", "I", "L", "E", "D">>
S_CANCELLED == <<"C", "A", "N", "C", "E", "L", "L", "E", "D">>
S_NODE_FAIL == <<"N", "O", "D", "E", "_", "F", "A", "I", "L">>
S_CANCELLED_by == <<"C", "A", "N", "C", "E", "L", "L", "E", "D", " ", "b", "y">>
S_CANCELLED_by_uid == <<"C", "A", "N", "C", "E", "L", "L", "E", "D", " ", "b", "y", " ", "1", "2">>
S_OUT_OF_MEMORY == <<"O", "U", "T", "_", "O", "F", "_", "M", "E", "M", "O", "R", "Y">>
S_RUNNING == <<"R", "U", "N", "N", "I", "N", "G">>
S_gpu == <<"g", "p", "u">>
S_cpu == <<"c", "p", "u">>
S_gpu_hbm == <<"g", "p", "u", "&", "h", "b", "m">>

\* ELAPSED strings
E_010000 == <<"0", "1", ":", "0", "0", ":", "0", "0">>
E_003000 == <<"0", "0", ":", "3", "0", ":", "0", "0">>
E_001000 == <<"0", "0", ":", "1", "0", ":", "0", "0">>
E_000600 == <<"0", "0", ":", "0", "6", ":", "0", "0">>
E_000300 == <<"0", "0", ":", "0", "3", ":", "0", "0">>
E_000020 == <<"0", "0", ":", "0", "0", ":", "2", "0">>
E_000000 == <<"0", "0", ":", "0", "0", ":", "0", "0">>
E_short == <<"1", ":", "3", "0">>
E_days == <<"1", "-", "0", "2", ":", "0", "0", ":", "0", "0">>
E_alpha == <<"0", "0", ":", "0", "x", ":", "0", "0">>


(***************************************************************************)
(* The accounting service (desispec.workflow.queue.queue_info_from_qids):  *)
(* one record per job id.  Only the columns the code reads are kept; the   *)
(* other columns (JOBNAME, PARTITION, SUBMIT, ...) are carried unchanged;  *)
(* the column STATE is the field State (STATE is a reserved word).         *)
(***************************************************************************)

AcctRecords ==
    << [NNODES |-> 2, ELAPSED |-> E_010000, State |-> S_COMPLETED,        CONSTRAINTS |-> S_cpu],
       [NNODES |-> 2, ELAPSED |-> E_003000, State |-> S_FAILED,           CONSTRAINTS |-> S_cpu],
       [NNODES |-> 1, ELAPSED |-> E_001000, State |-> S_TIMEOUT,          CONSTRAINTS |-> S_gpu],
       [NNODES |-> 1, ELAPSED |-> E_000600, State |-> S_CANCELLED_by_uid, CONSTRAINTS |-> S_gpu_hbm],
       [NNODES |-> 4, ELAPSED |-> E_000020, State |-> S_NODE_FAIL,        CONSTRAINTS |-> S_cpu],
       [NNODES |-> 1, ELAPSED |-> E_000300, State |-> S_OUT_OF_MEMORY,    CONSTRAINTS |-> S_gpu],
       [NNODES |-> 1, ELAPSED |-> E_000000, State |-> S_CANCELLED,        CONSTRAINTS |-> S_cpu],
       [NNODES |-> 3, ELAPSED |-> E_001000, State |-> S_RUNNING,          CONSTRAINTS |-> S_cpu],
       [NNODES |-> 1, ELAPSED |-> E_short,  State |-> S_COMPLETED,        CONSTRAINTS |-> S_cpu],
       [NNODES |-> 1, ELAPSED |-> E_days,   State |-> S_TIMEOUT,          CONSTRAINTS |-> S_gpu],
       [NNODES |-> 1, ELAPSED |-> E_alpha,  State |-> S_CANCELLED_by,     CONSTRAINTS |-> S_cpu] >>

\* the record the accounting service holds for a job id
sacct(qid) ==
    LET r == AcctRecords[((qid - 1) % Len(AcctRecords)) + 1]
    IN  [JOBID |-> qid, NNODES |-> r.NNODES, ELAPSED |-> r.ELAPSED,
         State |-> r.State, CONSTRAINTS |-> r.CONSTRAINTS]

\* one record per job id asked for, here in the order asked
queue_info_from_qids(qids) == [i \in 1..Len(qids) |-> sacct(qids[i])]

(***************************************************************************)
(* hhmmss2hours                                                            *)
(***************************************************************************)

\* the conversion taking two fields as hh:mm
hhmmss2hours_hhmm(hhmmss) ==
    LET f == split(hhmmss, ":")
        g == IF Len(f) = 2 THEN Append(f, <<"0">>) ELSE f
    IN  IF Len(g) # 3 THEN [ok |-> FALSE, secs |-> 0]
        ELSE LET hh == int(g[1])
                 mm == int(g[2])
                 ss == int(g[3])
             IN  IF hh.ok /\ mm.ok /\ ss.ok
                 THEN [ok |-> TRUE, secs |-> 3600 * hh.val + 60 * mm.val + ss.val]
                 ELSE [ok |-> FALSE, secs |-> 0]

\* The hours as an exact number of seconds (hours = secs/3600);
\* [ok |-> FALSE] stands for the ValueError of the unpacking or of int().
hhmmss2hours(hhmmss) ==
    LET f == split(hhmmss, ":")
    IN  IF Len(f) # 3 THEN [ok |-> FALSE, secs |-> 0]
        ELSE LET hh == int(f[1])
                 mm == int(f[2])
                 ss == int(f[3])
             IN  IF hh.ok /\ mm.ok /\ ss.ok
                 THEN [ok |-> TRUE, secs |-> 3600 * hh.val + 60 * mm.val + ss.val]
                 ELSE [ok |-> FALSE, secs |-> 0]

(***************************************************************************)
(* load_qinfo, step by step                                                *)
(***************************************************************************)

\* every JOBDESC of the model, in the order np.unique sorts them
JobdescSorted ==
    <<"arc", "ccdcalib", "cumulative", "flat", "linkcal", "nightlybias",
      "nightlyflat", "poststdstar", "psfnight", "tilenight", "zpix">>

\* np.unique(ptab['JOBDESC'])
unique_jobdesc(ptab) ==
    SelectSeq(JobdescSorted, LAMBDA d : \E i \in 1..Len(ptab) : ptab[i].JOBDESC = d)

\* list(np.concatenate(ptab['ALL_QIDS'][ii]))
RECURSIVE concat_qids(_, _)
concat_qids(ptab, jobdesc) ==
    IF ptab = <<>> THEN <<>>
    ELSE (IF ptab[1].JOBDESC = jobdesc THEN ptab[1].ALL_QIDS ELSE <<>>)
         \o concat_qids(Tail(ptab), jobdesc)

\* A dict is the sequence of its items, in insertion order.
dict_has(d, k) == \E i \in 1..Len(d) : d[i].key = k

dict_get(d, k) == d[CHOOSE i \in 1..Len(d) : d[i].key = k].val

\* d[k] = v
dict_set(d, k, v) ==
    IF dict_has(d, k)
    THEN [i \in 1..Len(d) |-> IF d[i].key = k THEN [key |-> k, val |-> v] ELSE d[i]]
    ELSE Append(d, [key |-> k, val |-> v])

\* the body of "for jobdesc in np.unique(ptab['JOBDESC'])" over the
\* jobdescs ds of one processing table
RECURSIVE collect_ptab(_, _, _)
collect_ptab(d, ptab, ds) ==
    IF ds = <<>> THEN d
    ELSE LET jobdesc == ds[1]
             qids    == concat_qids(ptab, jobdesc)
             d2      == IF ~dict_has(d, jobdesc) THEN dict_set(d, jobdesc, qids)
                        ELSE dict_set(d, jobdesc, dict_get(d, jobdesc) \o qids)
         IN  collect_ptab(d2, ptab, Tail(ds))

\* "for ptab in ptables"
RECURSIVE collect_qids(_, _)
collect_qids(d, tabs) ==
    IF tabs = <<>> THEN d
    ELSE collect_qids(collect_ptab(d, tabs[1], unique_jobdesc(tabs[1])), Tail(tabs))

\* queue_info_from_qids(qids) with jobdesc_qinfo['JOBDESC'] = jobdesc
tagged_qinfo(jobdesc, qids) ==
    LET t == queue_info_from_qids(qids)
    IN  [i \in 1..Len(t) |->
            [JOBID |-> t[i].JOBID, NNODES |-> t[i].NNODES, ELAPSED |-> t[i].ELAPSED,
             State |-> t[i].State, CONSTRAINTS |-> t[i].CONSTRAINTS,
             JOBDESC |-> jobdesc]]

\* "for jobdesc, qids in jobdesc_qids.items()": the list qinfo_tables
query_all(d) == [i \in 1..Len(d) |-> tagged_qinfo(d[i].key, d[i].val)]

\* stacking that keeps the first row of each job id
RECURSIVE vstack_unique(_)
vstack_unique(tables) ==
    IF tables = <<>> THEN <<>>
    ELSE LET before == vstack_unique(SubSeq(tables, 1, Len(tables) - 1))
         IN  before \o SelectSeq(tables[Len(tables)],
                                 LAMBDA r : \A i \in 1..Len(before) : before[i].JOBID # r.JOBID)

\* vstack(tables)
RECURSIVE vstack(_)
vstack(tables) ==
    IF tables = <<>> THEN <<>> ELSE tables[1] \o vstack(Tail(tables))

\* some hhmmss2hours(hhmmss) of the list comprehension raises
elapsed_error(t) == \E i \in 1..Len(t) : ~hhmmss2hours(t[i].ELAPSED).ok

\* the hours of one node
node_hours_one(row) == RoundHalfEven(hhmmss2hours(row.ELAPSED).secs * 25, 9)

\* (hours * NNODES).round(4), in units of 1e-4 hours:
\* secs/3600 * nnodes * 10^4 = secs * nnodes * 25 / 9
node_hours(row) ==
    RoundHalfEven(hhmmss2hours(row.ELAPSED).secs * row.NNODES * 25, 9)

\* np.char.count(CONSTRAINTS, 'gpu') > 0, as int
gpu_flag(row) == IF contains(row.CONSTRAINTS, S_gpu) THEN 1 ELSE 0

\* the rewrite of the state 'CANCELLED by' alone
cancelled_state_exact(state) ==
    IF state = S_CANCELLED_by THEN S_CANCELLED ELSE state

\* qinfo['STATE'][ii] = 'CANCELLED' where ii = startswith(STATE, 'CANCELLED by')
cancelled_state(state) ==
    IF startswith(state, S_CANCELLED_by) THEN S_CANCELLED ELSE state

\* the derived columns and the STATE rewrite, on a table whose ELAPSED parse
derive(t) ==
    [i \in 1..Len(t) |->
        [JOBID |-> t[i].JOBID, NNODES |-> t[i].NNODES, ELAPSED |-> t[i].ELAPSED,
         State |-> cancelled_state(t[i].State), CONSTRAINTS |-> t[i].CONSTRAINTS,
         JOBDESC |-> t[i].JOBDESC,
         NODE_HOURS |-> node_hours(t[i]), GPU |-> gpu_flag(t[i])]]

(***************************************************************************)
(* summarize_qinfo                                                         *)
(***************************************************************************)

jobstates == <<S_COMPLETED, S_TIMEOUT, S_FAILED, S_CANCELLED, S_NODE_FAIL>>

Whitelist ==
    <<"linkcal", "nightlybias", "ccdcalib", "arc", "psfnight", "flat",
      "nightlyflat", "tilenight", "cumulative", "zpix">>

RECURSIVE sum_node_hours(_)
sum_node_hours(t) ==
    IF t = <<>> THEN 0 ELSE t[1].NODE_HOURS + sum_node_hours(Tail(t))

\* qinfo[qinfo['JOBDESC'] == jobdesc]
select_jobdesc(qinfo, jobdesc) == SelectSeq(qinfo, LAMBDA r : r.JOBDESC = jobdesc)

\* np.count_nonzero(jobdesc_qinfo['STATE'] == state)
count_state(t, state) == Cardinality({i \in 1..Len(t) : t[i].State = state})

\* round(100 * node_hours / tot_hours, 1) in tenths of a percent, node_hours
\* in tenths of an hour and tot_hours in 1e-4 hours; 0/0 is nan
percent_time(nh, tot_hours) ==
    IF tot_hours = 0 THEN "nan" ELSE RoundHalfEven(nh * 1000000, tot_hours)

\* a row whose NODE_HOURS leave out the rows in an outcome not counted
summary_row_tracked(jobdesc, jobdesc_qinfo, tot_hours) ==
    LET tracked == SelectSeq(jobdesc_qinfo,
                             LAMBDA r : \E k \in 1..Len(jobstates) : jobstates[k] = r.State)
        nh == RoundHalfEven(sum_node_hours(tracked), 1000)
    IN  [JOBDESC    |-> jobdesc,
         CPUGPU     |-> IF jobdesc_qinfo[1].GPU # 0 THEN "gpu" ELSE "cpu",
         NODE_HOURS |-> nh,
         PERCENT    |-> percent_time(nh, tot_hours),
         counts     |-> [k \in 1..Len(jobstates) |-> count_state(jobdesc_qinfo, jobstates[k])]]

\* one row of the summary, for a category with rows
summary_row(jobdesc, jobdesc_qinfo, tot_hours) ==
    LET nh == RoundHalfEven(sum_node_hours(jobdesc_qinfo), 1000)
    IN  [JOBDESC    |-> jobdesc,
         CPUGPU     |-> IF jobdesc_qinfo[1].GPU # 0 THEN "gpu" ELSE "cpu",
         NODE_HOURS |-> nh,
         PERCENT    |-> percent_time(nh, tot_hours),
         counts     |-> [k \in 1..Len(jobstates) |-> count_state(jobdesc_qinfo, jobstates[k])]]

\* the total over the rows of the summarized categories only
total_hours_whitelisted(qinfo) ==
    sum_node_hours(SelectSeq(qinfo,
                             LAMBDA r : \E k \in 1..Len(Whitelist) : Whitelist[k] = r.JOBDESC))

\* the total the percentages are taken of
total_hours(qinfo) == sum_node_hours(qinfo)

\* the loop leaving out a category without rows
RECURSIVE summarize_loop_skip(_, _, _, _)
summarize_loop_skip(qinfo, wl, tot_hours, rows) ==
    IF wl = <<>> THEN [ok |-> TRUE, rows |-> rows]
    ELSE LET jobdesc_qinfo == select_jobdesc(qinfo, wl[1])
         IN  IF jobdesc_qinfo = <<>>
             THEN summarize_loop_skip(qinfo, Tail(wl), tot_hours, rows)
             ELSE summarize_loop_skip(qinfo, Tail(wl), tot_hours,
                                      Append(rows, summary_row(wl[1], jobdesc_qinfo, tot_hours)))

\* the loop over the categories wl, rows being the rows built so far;
\* [ok |-> FALSE] stands for the IndexError of jobdesc_qinfo['GPU'][0]
RECURSIVE summarize_loop(_, _, _, _)
summarize_loop(qinfo, wl, tot_hours, rows) ==
    IF wl = <<>> THEN [ok |-> TRUE, rows |-> rows]
    ELSE LET jobdesc_qinfo == select_jobdesc(qinfo, wl[1])
         IN  IF jobdesc_qinfo = <<>> THEN [ok |-> FALSE, rows |-> <<>>]
             ELSE summarize_loop(qinfo, Tail(wl), tot_hours,
                                 Append(rows, summary_row(wl[1], jobdesc_qinfo, tot_hours)))

\* summarize_qinfo looping over the categories as np.unique orders them
summarize_qinfo_unique(qinfo) ==
    summarize_loop(qinfo,
                   SelectSeq(JobdescSorted,
                             LAMBDA d : \E k \in 1..Len(Whitelist) : Whitelist[k] = d),
                   total_hours(qinfo), <<>>)

summarize_qinfo(qinfo) == summarize_loop(qinfo, Whitelist, total_hours(qinfo), <<>>)


(***************************************************************************)
(* The program state                                                       *)
(***************************************************************************)

VARIABLES
    entry,          \* the function called from outside: "main", "load_qinfo",
                    \* "get_zpix_qids" or "summarize_qinfo"
    pc,             \* the statement about to run; "done", "failed"
    error,          \* the exception that ended the call, "None" if none
    args,           \* main's argparse.Namespace
    existing,       \* which of the --output and --summary paths exist on disk
    infile,         \* the table stored in the --input file
    ptables,        \* the processing tables of the production
    zpixlogs,       \* the paths the healpix log glob matches
    jobdesc_qids,   \* load_qinfo's dict jobdesc -> qids
    zpixfiles,      \* get_zpix_qids' sorted list zpixlogs
    zi,             \* index of the next filename of the loop over zpixfiles
    zpix_qids,      \* get_zpix_qids' list of job ids
    errlog,         \* the filenames of the log.error calls
    qtab,           \* load_qinfo's table qinfo
    qinfo,          \* main's qinfo / the table load_qinfo returned
    summary,        \* main's summary / the table summarize_qinfo returned
    outfile,        \* what was written to --output
    sumfile,        \* what was written to --summary
    stdout,         \* what was printed
    steps           \* history: the steps of main (or the function called) begun so far

vars ==
    <<entry, pc, error, args, existing, infile, ptables, zpixlogs, jobdesc_qids,
      zpixfiles, zi, zpix_qids, errlog, qtab, qinfo, summary, outfile, sumfile,
      stdout, steps>>

\* no table (None, or nothing written or printed)
NoTable == [ok |-> FALSE, rows |-> <<>>]

SomeTable(rows) == [ok |-> TRUE, rows |-> rows]

\* $SPECPROD
EnvSpecprod == "envprod"

(***************************************************************************)
(* get_zpix_qids                                                           *)
(***************************************************************************)

\* lines 53-56: the sorted glob and the empty list
ZpixGlob ==
    /\ pc = "zpix_glob"
    /\ steps' = steps
    /\ zpixfiles' = sorted(zpixlogs)
    /\ zpix_qids' = <<>>
    /\ zi' = 1
    /\ pc' = "zpix_loop"
    /\ UNCHANGED <<entry, error, args, existing, infile, ptables, zpixlogs,
                   jobdesc_qids, errlog, qtab, qinfo, summary, outfile, sumfile,
                   stdout>>

\* line 59-60: os.path.splitext(os.path.basename(filename))[0].split('-')[-1],
\* then int()
parse_qid(filename) ==
    LET tokens == split(splitext_root(basename(filename)), "-")
    IN  int(tokens[Len(tokens)])

\* the loop ending at the first filename that does not parse
ZpixIter_break ==
    /\ pc = "zpix_loop"
    /\ steps' = steps
    /\ zi <= Len(zpixfiles)
    /\ LET qid == parse_qid(zpixfiles[zi])
       IN  \/ /\ qid.ok
              /\ zpix_qids' = Append(zpix_qids, qid.val)
              /\ errlog' = errlog
              /\ zi' = zi + 1
           \/ /\ ~qid.ok
              /\ errlog' = Append(errlog, zpixfiles[zi])
              /\ zpix_qids' = zpix_qids
              /\ zi' = Len(zpixfiles) + 1
    /\ UNCHANGED <<entry, pc, error, args, existing, infile, ptables, zpixlogs,
                   jobdesc_qids, zpixfiles, qtab, qinfo, summary, outfile,
                   sumfile, stdout>>

\* lines 57-65: one iteration of the loop
ZpixIter ==
    /\ pc = "zpix_loop"
    /\ steps' = steps
    /\ zi <= Len(zpixfiles)
    /\ LET qid == parse_qid(zpixfiles[zi])
       IN  \/ /\ qid.ok
              /\ zpix_qids' = Append(zpix_qids, qid.val)
              /\ errlog' = errlog
           \/ /\ ~qid.ok
              /\ errlog' = Append(errlog, zpixfiles[zi])
              /\ zpix_qids' = zpix_qids
    /\ zi' = zi + 1
    /\ UNCHANGED <<entry, pc, error, args, existing, infile, ptables, zpixlogs,
                   jobdesc_qids, zpixfiles, qtab, qinfo, summary, outfile,
                   sumfile, stdout>>

\* line 67, and in load_qinfo line 94: jobdesc_qids['zpix'] = get_zpix_qids()
ZpixReturn ==
    /\ pc = "zpix_loop"
    /\ steps' = steps
    /\ zi > Len(zpixfiles)
    /\ \/ /\ entry = "get_zpix_qids"
          /\ pc' = "done"
          /\ jobdesc_qids' = jobdesc_qids
       \/ /\ entry # "get_zpix_qids"
          /\ jobdesc_qids' = dict_set(jobdesc_qids, "zpix", zpix_qids)
          /\ pc' = "load_query"
    /\ UNCHANGED <<entry, error, args, existing, infile, ptables, zpixlogs,
                   zpixfiles, zi, zpix_qids, errlog, qtab, qinfo, summary,
                   outfile, sumfile, stdout>>

(***************************************************************************)
(* load_qinfo                                                              *)
(***************************************************************************)

\* lines 79-91: load the processing tables, group the job ids by JOBDESC;
\* line 94 then calls get_zpix_qids
LoadCollect ==
    /\ pc = "load_collect"
    /\ steps' = steps
    /\ jobdesc_qids' = collect_qids(<<>>, ptables)
    /\ pc' = "zpix_glob"
    /\ UNCHANGED <<entry, error, args, existing, infile, ptables, zpixlogs,
                   zpixfiles, zi, zpix_qids, errlog, qtab, qinfo, summary,
                   outfile, sumfile, stdout>>

\* lines 97-104: query the accounting service per jobdesc, stack the tables
LoadQuery ==
    /\ pc = "load_query"
    /\ steps' = steps
    /\ qtab' = vstack(query_all(jobdesc_qids))
    /\ pc' = "load_derive"
    /\ UNCHANGED <<entry, error, args, existing, infile, ptables, zpixlogs,
                   jobdesc_qids, zpixfiles, zi, zpix_qids, errlog, qinfo,
                   summary, outfile, sumfile, stdout>>

\* lines 106-125: NODE_HOURS, GPU, the STATE rewrite, meta['SPECPROD'], return
LoadDerive ==
    /\ pc = "load_derive"
    /\ steps' = steps
    /\ \/ /\ elapsed_error(qtab)
          /\ pc' = "failed"
          /\ error' = "ValueError"
          /\ qinfo' = qinfo
       \/ /\ ~elapsed_error(qtab)
          /\ qinfo' = [ok |-> TRUE, rows |-> derive(qtab),
                       SPECPROD |-> IF args.specprod = "None" THEN EnvSpecprod
                                    ELSE args.specprod]
          /\ pc' = IF entry = "load_qinfo" THEN "done" ELSE "write_output"
          /\ error' = error
    /\ UNCHANGED <<entry, args, existing, infile, ptables, zpixlogs,
                   jobdesc_qids, zpixfiles, zi, zpix_qids, errlog, qtab, summary,
                   outfile, sumfile, stdout>>

(***************************************************************************)
(* summarize_qinfo, as one step                                            *)
(***************************************************************************)

\* lines 137-168 (line 193 of main)
Summarize ==
    /\ pc = "summarize"
    /\ steps' = Append(steps, "summarize")
    /\ LET t == summarize_qinfo(qinfo.rows)
       IN  \/ /\ t.ok
              /\ summary' = SomeTable(t.rows)
              /\ pc' = IF entry = "summarize_qinfo" THEN "done" ELSE "write_summary"
              /\ error' = error
           \/ /\ ~t.ok
              /\ summary' = summary
              /\ pc' = "failed"
              /\ error' = "IndexError"
    /\ UNCHANGED <<entry, args, existing, infile, ptables, zpixlogs,
                   jobdesc_qids, zpixfiles, zi, zpix_qids, errlog, qtab, qinfo,
                   outfile, sumfile, stdout>>

(***************************************************************************)
(* main                                                                    *)
(***************************************************************************)

\* lines 185-186: qinfo = Table.read(args.input)
ReadInput ==
    /\ pc = "main"
    /\ steps' = Append(steps, "read_input")
    /\ args.input
    /\ qinfo' = infile
    /\ pc' = "write_output"
    /\ UNCHANGED <<entry, error, args, existing, infile, ptables, zpixlogs,
                   jobdesc_qids, zpixfiles, zi, zpix_qids, errlog, qtab, summary,
                   outfile, sumfile, stdout>>

\* lines 187-188: qinfo = load_qinfo(args.specprod)
CallLoad ==
    /\ pc = "main"
    /\ steps' = Append(steps, "load_qinfo")
    /\ ~args.input
    /\ pc' = "load_collect"
    /\ UNCHANGED <<entry, error, args, existing, infile, ptables, zpixlogs,
                   jobdesc_qids, zpixfiles, zi, zpix_qids, errlog, qtab, qinfo,
                   summary, outfile, sumfile, stdout>>

\* Table.write(path, overwrite=...) raises OSError on an existing file
\* unless overwrite is set
write_fails(name) == name \in existing /\ ~args.overwrite

\* the write whose failure is swallowed
WriteOutput_swallow ==
    /\ pc = "write_output"
    /\ steps' = IF args.output THEN Append(steps, "write_output") ELSE steps
    /\ \/ /\ ~args.output
          /\ UNCHANGED <<existing, outfile>>
       \/ /\ args.output
          /\ write_fails("output")
          /\ UNCHANGED <<existing, outfile>>
       \/ /\ args.output
          /\ ~write_fails("output")
          /\ outfile' = qinfo
          /\ existing' = existing \cup {"output"}
    /\ pc' = "summarize"
    /\ error' = error
    /\ UNCHANGED <<entry, args, infile, ptables, zpixlogs, jobdesc_qids,
                   zpixfiles, zi, zpix_qids, errlog, qtab, qinfo, summary,
                   sumfile, stdout>>

\* lines 190-191
WriteOutput ==
    /\ pc = "write_output"
    /\ steps' = IF args.output THEN Append(steps, "write_output") ELSE steps
    /\ \/ /\ ~args.output
          /\ pc' = "summarize"
          /\ UNCHANGED <<error, existing, outfile>>
       \/ /\ args.output
          /\ write_fails("output")
          /\ pc' = "failed"
          /\ error' = "OSError"
          /\ UNCHANGED <<existing, outfile>>
       \/ /\ args.output
          /\ ~write_fails("output")
          /\ outfile' = qinfo
          /\ existing' = existing \cup {"output"}
          /\ pc' = "summarize"
          /\ error' = error
    /\ UNCHANGED <<entry, args, infile, ptables, zpixlogs, jobdesc_qids,
                   zpixfiles, zi, zpix_qids, errlog, qtab, qinfo, summary,
                   sumfile, stdout>>

\* lines 195-196
WriteSummary ==
    /\ pc = "write_summary"
    /\ steps' = IF args.summary THEN Append(steps, "write_summary") ELSE steps
    /\ \/ /\ ~args.summary
          /\ pc' = "print"
          /\ UNCHANGED <<error, existing, sumfile>>
       \/ /\ args.summary
          /\ write_fails("summary")
          /\ pc' = "failed"
          /\ error' = "OSError"
          /\ UNCHANGED <<existing, sumfile>>
       \/ /\ args.summary
          /\ ~write_fails("summary")
          /\ sumfile' = summary
          /\ existing' = existing \cup {"summary"}
          /\ pc' = "print"
          /\ error' = error
    /\ UNCHANGED <<entry, args, infile, ptables, zpixlogs, jobdesc_qids,
                   zpixfiles, zi, zpix_qids, errlog, qtab, qinfo, summary,
                   outfile, stdout>>

\* line 198
PrintSummary ==
    /\ pc = "print"
    /\ steps' = Append(steps, "print")
    /\ stdout' = summary
    /\ pc' = IF args.debug THEN "debug" ELSE "done"
    /\ UNCHANGED <<entry, error, args, existing, infile, ptables, zpixlogs,
                   jobdesc_qids, zpixfiles, zi, zpix_qids, errlog, qtab, qinfo,
                   summary, outfile, sumfile>>

\* lines 200-202: the IPython session, left by the user
Debug ==
    /\ pc = "debug"
    /\ steps' = steps
    /\ pc' = "done"
    /\ UNCHANGED <<entry, error, args, existing, infile, ptables, zpixlogs,
                   jobdesc_qids, zpixfiles, zi, zpix_qids, errlog, qtab, qinfo,
                   summary, outfile, sumfile, stdout>>


(***************************************************************************)
(* The inputs: productions, healpix logs, tables, command lines            *)
(***************************************************************************)

\* the most resubmissions of the arc task of a night
MaxArcQids == 2

\* the most healpix logs of a production, for get_zpix_qids called alone
MaxLogs == 3

\* the order of the tasks of a night
PipelineOrder ==
    <<"linkcal", "nightlybias", "ccdcalib", "arc", "psfnight", "flat",
      "nightlyflat", "tilenight", "cumulative", "poststdstar">>

AllJobdescs == {PipelineOrder[i] : i \in 1..Len(PipelineOrder)}

\* the job of the one task of each category other than arc
DefaultQid(jobdesc) ==
    CASE jobdesc = "linkcal"     -> 7
      [] jobdesc = "nightlybias" -> 5
      [] jobdesc = "ccdcalib"    -> 3
      [] jobdesc = "psfnight"    -> 1
      [] jobdesc = "flat"        -> 2
      [] jobdesc = "nightlyflat" -> 8
      [] jobdesc = "tilenight"   -> 4
      [] jobdesc = "cumulative"  -> 6
      [] OTHER                   -> 7

\* The tasks of one category of a night: the arc task was submitted as arcq
\* (its first submission is one row, its resubmissions a second one), the
\* poststdstar task as otherq, every other task once (in an idle production,
\* as the job of linkcal, which used no time).
tasks_of(jobdesc, arcq, otherq, idle) ==
    IF jobdesc = "arc"
    THEN IF Len(arcq) <= 1 THEN <<[JOBDESC |-> jobdesc, ALL_QIDS |-> arcq]>>
         ELSE <<[JOBDESC |-> jobdesc, ALL_QIDS |-> <<arcq[1]>>],
                [JOBDESC |-> jobdesc, ALL_QIDS |-> Tail(arcq)]>>
    ELSE IF jobdesc = "poststdstar"
    THEN IF otherq = <<>> THEN <<>> ELSE <<[JOBDESC |-> jobdesc, ALL_QIDS |-> otherq]>>
    ELSE <<[JOBDESC |-> jobdesc,
            ALL_QIDS |-> <<IF idle THEN DefaultQid("linkcal") ELSE DefaultQid(jobdesc)>>]>>

\* the processing table of a night that ran the categories of present
RECURSIVE night_from(_, _, _, _, _)
night_from(order, present, arcq, otherq, idle) ==
    IF order = <<>> THEN <<>>
    ELSE (IF order[1] \in present THEN tasks_of(order[1], arcq, otherq, idle) ELSE <<>>)
         \o night_from(Tail(order), present, arcq, otherq, idle)

night(present, arcq, otherq, idle) ==
    night_from(PipelineOrder, present, arcq, otherq, idle)

\* a later night: one more arc and one more flat, the flat job being one
\* the accounting also reports for psfnight
SecondNight ==
    <<[JOBDESC |-> "flat", ALL_QIDS |-> <<1>>],
      [JOBDESC |-> "arc",  ALL_QIDS |-> <<4, 2>>]>>

\* sequences over S of length lo..hi
SeqsOf(S, lo, hi) == UNION {[1..n -> S] : n \in lo..hi}

\* healpix log paths (the directories above */zpix-*.log shortened to one)
P_12 == <<"a", "/", "z", "p", "i", "x", "-", "x", "-", "1", "2", ".", "l", "o", "g">>
P_3 == <<"a", "/", "z", "p", "i", "x", "-", "x", "-", "3", ".", "l", "o", "g">>
P_y == <<"b", "/", "z", "p", "i", "x", "-", "x", "-", "y", ".", "l", "o", "g">>
P_none == <<"a", "/", "z", "p", "i", "x", "-", ".", "l", "o", "g">>
P_dot == <<"b", "/", "z", "p", "i", "x", "-", "5", ".", "2", ".", "l", "o", "g">>
P_plus == <<"b", "/", "z", "p", "i", "x", "-", "x", "-", "+", "7", ".", "l", "o", "g">>
P_us == <<"a", "/", "z", "p", "i", "x", "-", "1", "_", "0", ".", "l", "o", "g">>
P_dir == <<"b", "-", "1", "/", "z", "p", "i", "x", "-", "2", ".", "l", "o", "g">>

LogPaths == {P_12, P_3, P_y, P_none, P_dot, P_plus, P_us, P_dir}

\* the table a run of load_qinfo makes of a production whose zpix jobs are zq
prior_run_rows(tabs, zq) ==
    derive(vstack(query_all(dict_set(collect_qids(<<>>, tabs), "zpix", zq))))

\* a table file may hold the rows in another order
reordered(t, order) ==
    CASE order = "asloaded" -> t
      [] order = "reversed" -> [i \in 1..Len(t) |-> t[Len(t) + 1 - i]]

QinfoTable(rows) == [ok |-> TRUE, rows |-> rows, SPECPROD |-> EnvSpecprod]

\* the categories a production ran: all of them, all but one, or arc alone
PresentChoices ==
    {AllJobdescs} \cup {AllJobdescs \ {d} : d \in AllJobdescs \ {"poststdstar"}}
        \cup {{"arc"}}

\* job ids of arc tasks of the productions whose tables are summarized
\* (their ELAPSED parses)
SumArcQids == {1, 2, 3, 6, 7, 8}

\* job ids of arc tasks of the productions load_qinfo is called on
LoadArcQids == {1, 2, 4, 9, 10, 11}

NoArgs ==
    [input |-> FALSE, output |-> FALSE, summary |-> FALSE, overwrite |-> FALSE,
     debug |-> FALSE, specprod |-> "None"]

Locals ==
    /\ error = "None"
    /\ jobdesc_qids = <<>>
    /\ zpixfiles = <<>>
    /\ zi = 1
    /\ zpix_qids = <<>>
    /\ errlog = <<>>
    /\ qtab = <<>>
    /\ summary = NoTable
    /\ outfile = NoTable
    /\ sumfile = NoTable
    /\ stdout = NoTable
    /\ steps = <<>>

\* summarize_qinfo(qinfo) on a table of a prior run
InitSummarize ==
    /\ entry = "summarize_qinfo"
    /\ pc = "summarize"
    /\ args = NoArgs
    /\ existing = {}
    /\ infile = NoTable
    /\ ptables = <<>>
    /\ zpixlogs = {}
    /\ \E present \in PresentChoices, arcq \in SeqsOf(SumArcQids, 1, MaxArcQids),
          otherq \in {<<>>, <<3>>, <<5>>, <<7>>}, idle \in BOOLEAN,
          zpix \in BOOLEAN, order \in {"asloaded", "reversed"} :
          LET zq == IF ~zpix THEN <<>>
                    ELSE IF idle THEN <<DefaultQid("linkcal")>> ELSE <<3>>
          IN  qinfo = QinfoTable(reordered(
                          prior_run_rows(<<night(present, arcq, otherq, idle)>>, zq), order))
    /\ Locals

\* get_zpix_qids() on a production's healpix logs
InitZpix ==
    /\ entry = "get_zpix_qids"
    /\ pc = "zpix_glob"
    /\ args = NoArgs
    /\ existing = {}
    /\ infile = NoTable
    /\ ptables = <<>>
    /\ zpixlogs \in {S \in SUBSET LogPaths : Cardinality(S) <= MaxLogs}
    /\ qinfo = NoTable
    /\ Locals

\* load_qinfo(specprod) on a production
InitLoad ==
    /\ entry = "load_qinfo"
    /\ pc = "load_collect"
    /\ \E sp \in {"None", "prod"} : args = [NoArgs EXCEPT !.specprod = sp]
    /\ existing = {}
    /\ infile = NoTable
    /\ \E present \in {AllJobdescs, {"arc"}, {"arc", "flat", "tilenight"}},
          arcq \in SeqsOf(LoadArcQids, 1, MaxArcQids),
          later \in {<<>>, <<SecondNight>>} :
          ptables = <<night(present, arcq, <<1>>, FALSE)>> \o later
    /\ zpixlogs \in {{}, {P_3}, {P_12, P_y}}
    /\ qinfo = NoTable
    /\ Locals

\* main(args)
InitMain ==
    /\ entry = "main"
    /\ pc = "main"
    /\ args \in [input : BOOLEAN, output : BOOLEAN, summary : BOOLEAN,
                 overwrite : BOOLEAN, debug : BOOLEAN, specprod : {"None"}]
    /\ existing \in SUBSET {"output", "summary"}
    /\ infile \in {QinfoTable(prior_run_rows(<<night(AllJobdescs, <<1, 2>>, <<>>, FALSE)>>, <<3>>)),
                   QinfoTable(prior_run_rows(<<night({"arc"}, <<1, 2>>, <<>>, FALSE)>>, <<>>))}
    /\ \E w \in {<<AllJobdescs, <<1, 2>>, {P_3}>>,
                 <<AllJobdescs \ {"linkcal"}, <<1>>, {P_3, P_y}>>,
                 <<AllJobdescs, <<1, 9>>, {P_3}>>,
                 <<AllJobdescs, <<2>>, {}>>} :
          /\ ptables = <<night(w[1], w[2], <<1>>, FALSE)>>
          /\ zpixlogs = w[3]
    /\ qinfo = NoTable
    /\ Locals

Init == InitMain \/ InitLoad \/ InitZpix \/ InitSummarize

Next ==
    \/ ReadInput
    \/ CallLoad
    \/ LoadCollect
    \/ ZpixGlob
    \/ ZpixIter
    \/ ZpixReturn
    \/ LoadQuery
    \/ LoadDerive
    \/ WriteOutput
    \/ Summarize
    \/ WriteSummary
    \/ PrintSummary
    \/ Debug

Spec == Init /\ [][Next]_vars


(***************************************************************************)
(* Properties of summarize_qinfo                                           *)
(***************************************************************************)

\* the category order the summary is documented to have
ExpectedJobdescs ==
    <<"linkcal", "nightlybias", "ccdcalib", "arc", "psfnight", "flat",
      "nightlyflat", "tilenight", "cumulative", "zpix">>

ExpectedSet == {ExpectedJobdescs[k] : k \in 1..Len(ExpectedJobdescs)}

\* the five tracked outcomes, in column order
ExpectedStates == <<S_COMPLETED, S_TIMEOUT, S_FAILED, S_CANCELLED, S_NODE_FAIL>>

\* the rows of category c of the table given to summarize_qinfo
CategoryRows(c) == {i \in 1..Len(qinfo.rows) : qinfo.rows[i].JOBDESC = c}

\* the rows of categories outside the whitelist
OtherRows == {i \in 1..Len(qinfo.rows) : qinfo.rows[i].JOBDESC \notin ExpectedSet}

\* the sum of NODE_HOURS over the rows I of the table
RECURSIVE HoursOver(_)
HoursOver(I) ==
    IF I = {} THEN 0
    ELSE LET i == CHOOSE i \in I : TRUE
         IN  qinfo.rows[i].NODE_HOURS + HoursOver(I \ {i})

GrandTotal == HoursOver(1..Len(qinfo.rows))

Abs(x) == IF x < 0 THEN 0 - x ELSE x

\* x is p/q rounded to the nearest integer (q > 0)
IsRounded(x, p, q) == 2 * Abs(x * q - p) <= q

RECURSIVE SumSeq(_)
SumSeq(q) == IF q = <<>> THEN 0 ELSE q[1] + SumSeq(Tail(q))

\* summarize_qinfo was called
SummarizeRan == \E n \in 1..Len(steps) : steps[n] = "summarize"

\* some whitelisted category has no row
EmptyCategory == qinfo.ok /\ \E c \in ExpectedSet : CategoryRows(c) = {}

SummarizeFailed ==
    /\ pc = "failed" /\ error = "IndexError"
    /\ summary = NoTable /\ sumfile = NoTable /\ stdout = NoTable

\* C1: whenever summarize_qinfo returns, the summary has one row per
\* whitelisted category and its JOBDESC column reads linkcal, nightlybias,
\* ccdcalib, arc, psfnight, flat, nightlyflat, tilenight, cumulative, zpix,
\* whatever the order of the rows of the input table.
C1_SummaryOrder ==
    summary.ok =>
        [k \in 1..Len(summary.rows) |-> summary.rows[k].JOBDESC] = ExpectedJobdescs

\* a summary of a table whose rows come in the opposite order, zpix first
C1_Witness ==
    /\ entry = "summarize_qinfo" /\ summary.ok
    /\ qinfo.rows[1].JOBDESC = "zpix"
    /\ qinfo.rows[Len(qinfo.rows)].JOBDESC = "arc"

\* C2: if some whitelisted category has no row, summarize_qinfo ends in a
\* fatal error and returns no summary: no row of zeros, and not the rows of
\* the categories before it.
C2_EmptyCategoryFatal == (EmptyCategory /\ SummarizeRan) => SummarizeFailed

\* the failure on a table that has rows of linkcal, the first category, but
\* none of zpix, the last one
C2_Witness ==
    /\ entry = "summarize_qinfo" /\ SummarizeRan /\ SummarizeFailed
    /\ CategoryRows("linkcal") # {} /\ CategoryRows("zpix") = {}

\* the arc rows of the table are the two of the scenario
ArcRowsOfScenario ==
    /\ qinfo.ok
    /\ Cardinality(CategoryRows("arc")) = 2
    /\ \E i, j \in CategoryRows("arc") :
          /\ qinfo.rows[i].NNODES = 2 /\ qinfo.rows[i].ELAPSED = E_010000
          /\ qinfo.rows[i].State = S_COMPLETED
          /\ qinfo.rows[j].NNODES = 2 /\ qinfo.rows[j].ELAPSED = E_003000
          /\ qinfo.rows[j].State = S_FAILED

OnlyArcRows == ArcRowsOfScenario /\ Len(qinfo.rows) = 2

\* the summary row of arc
ArcRow == summary.rows[CHOOSE k \in 1..Len(summary.rows) : summary.rows[k].JOBDESC = "arc"]

HasArcRow == summary.ok /\ \E k \in 1..Len(summary.rows) : summary.rows[k].JOBDESC = "arc"

\* C3 as stated: on the table of the two arc rows alone, the arc row has
\* NODE_HOURS 3.0, PERCENT 100.0, COMPLETED 1, FAILED 1, the other counts 0.
C3_Original ==
    (OnlyArcRows /\ SummarizeRan) =>
        /\ HasArcRow
        /\ ArcRow.NODE_HOURS = 30 /\ ArcRow.PERCENT = 1000
        /\ ArcRow.counts = <<1, 0, 1, 0, 0>>

\* C3 amended: the table of the two arc rows alone ends in the empty
\* category error; when every other whitelisted category has a row too, the
\* arc row has NODE_HOURS 3.0, COMPLETED 1, FAILED 1, the other counts 0, and
\* PERCENT 100 * 3.0 / total rounded to 1 decimal, which is 100.0 when the
\* other rows used no time.
C3_ArcScenario ==
    /\ (OnlyArcRows /\ SummarizeRan) => SummarizeFailed
    /\ (ArcRowsOfScenario /\ ~EmptyCategory /\ SummarizeRan) =>
          /\ HasArcRow
          /\ ArcRow.NODE_HOURS = 30
          /\ ArcRow.counts = <<1, 0, 1, 0, 0>>
          /\ IsRounded(ArcRow.PERCENT, 30 * 1000000, GrandTotal)
          /\ (GrandTotal = 30000 => ArcRow.PERCENT = 1000)

\* the scenario's arc rows among rows that used no time: PERCENT is 100.0
C3_Witness ==
    /\ entry = "summarize_qinfo" /\ ArcRowsOfScenario /\ ~EmptyCategory
    /\ Len(qinfo.rows) > 2 /\ GrandTotal = 30000
    /\ HasArcRow /\ ArcRow.PERCENT = 1000 /\ ArcRow.NODE_HOURS = 30

\* rows outside the whitelist, and every whitelisted category has a row
OtherCategoryScenario ==
    qinfo.ok /\ OtherRows # {} /\ ~EmptyCategory /\ SummarizeRan

\* summarize_qinfo succeeds with the ten whitelisted rows, and each PERCENT
\* is 100 * NODE_HOURS / total, total taken over all rows of the table
PercentOfGrandTotal ==
    /\ summary.ok
    /\ Len(summary.rows) = 10
    /\ \A k \in 1..Len(summary.rows) :
          /\ summary.rows[k].JOBDESC \in ExpectedSet
          /\ IF GrandTotal = 0 THEN summary.rows[k].PERCENT = "nan"
             ELSE IsRounded(summary.rows[k].PERCENT,
                            summary.rows[k].NODE_HOURS * 1000000, GrandTotal)

\* C4 as stated: with rows of a category outside the whitelist,
\* summarize_qinfo succeeds, has no row for it, takes every PERCENT of the
\* total over all rows, and the ten PERCENT values sum to less than 100 when
\* the excluded rows used time.
C4_Original ==
    (OtherCategoryScenario /\ HoursOver(OtherRows) > 0) =>
        /\ PercentOfGrandTotal
        /\ SumSeq([k \in 1..Len(summary.rows) |-> summary.rows[k].PERCENT]) < 1000

\* C4 amended: with rows of a category outside the whitelist,
\* summarize_qinfo succeeds, has no row for it, and every PERCENT is 100
\* times the category's rounded NODE_HOURS over the total of all rows, the
\* excluded ones included, rounded to 1 decimal (nan when the total is 0).
C4_PercentOfGrandTotal == OtherCategoryScenario => PercentOfGrandTotal

\* a summary of a table whose excluded rows used time
C4_Witness ==
    /\ entry = "summarize_qinfo" /\ OtherCategoryScenario /\ summary.ok
    /\ HoursOver(OtherRows) > 0
    /\ HoursOver(OtherRows) < GrandTotal

\* the number of rows of category c in outcome st
RowsInState(c, st) == Cardinality({i \in CategoryRows(c) : qinfo.rows[i].State = st})

\* C5: each of the columns COMPLETED, TIMEOUT, FAILED, CANCELLED, NODE_FAIL
\* is the number of the category's rows in exactly that STATE; a row in
\* another state is in none of them, so they sum to at most the category's
\* row count, and its NODE_HOURS are still part of the category's NODE_HOURS.
C5_StateCounts ==
    summary.ok =>
        \A k \in 1..Len(summary.rows) :
            LET r == summary.rows[k]
            IN  /\ \A j \in 1..5 : r.counts[j] = RowsInState(r.JOBDESC, ExpectedStates[j])
                /\ Len(r.counts) = 5
                /\ SumSeq(r.counts) <= Cardinality(CategoryRows(r.JOBDESC))
                /\ IsRounded(r.NODE_HOURS, HoursOver(CategoryRows(r.JOBDESC)), 1000)

\* arc has a COMPLETED row of 2.0 node hours and a RUNNING row of 0.5: one
\* row counted, 2.5 node hours
C5_Witness ==
    /\ entry = "summarize_qinfo" /\ HasArcRow
    /\ Cardinality(CategoryRows("arc")) = 2
    /\ \E i \in CategoryRows("arc") :
          qinfo.rows[i].State = S_RUNNING /\ qinfo.rows[i].NODE_HOURS = 5000
    /\ SumSeq(ArcRow.counts) = 1
    /\ ArcRow.NODE_HOURS = 25


(***************************************************************************)
(* Properties of load_qinfo                                                *)
(***************************************************************************)

\* load_qinfo was called (by main, or from outside)
LoadCalled == (entry = "load_qinfo" \/ entry = "main") /\ ~args.input

\* load_qinfo has queried the accounting service and stacked the answers
LoadQueried ==
    /\ LoadCalled
    /\ pc \notin {"main", "load_collect", "zpix_glob", "zpix_loop", "load_query"}

\* load_qinfo has run its parse of ELAPSED
LoadParsed == LoadQueried /\ pc # "load_derive"

\* load_qinfo returned a table
LoadReturned == LoadParsed /\ qinfo.ok

\* s begins with "CANCELLED by"
CancelledBy(s) ==
    /\ Len(s) >= 12
    /\ \A n \in 1..12 : s[n] = S_CANCELLED_by[n]

\* C6: no row of the table load_qinfo returns has a STATE beginning with
\* "CANCELLED by": such a record has STATE "CANCELLED", every other record
\* the state the provider returned, and no other field of a row is changed.
C6_CancelledRewrite ==
    LoadReturned =>
        /\ Len(qinfo.rows) = Len(qtab)
        /\ \A i \in 1..Len(qinfo.rows) :
              LET row == qinfo.rows[i]
                  rec == qtab[i]
              IN  /\ ~CancelledBy(row.State)
                  /\ CancelledBy(rec.State) =>
                        row.State = <<"C", "A", "N", "C", "E", "L", "L", "E", "D">>
                  /\ ~CancelledBy(rec.State) => row.State = rec.State
                  /\ row.JOBID = rec.JOBID /\ row.NNODES = rec.NNODES
                  /\ row.ELAPSED = rec.ELAPSED /\ row.CONSTRAINTS = rec.CONSTRAINTS
                  /\ row.JOBDESC = rec.JOBDESC

\* a returned table of records "CANCELLED by 12", "CANCELLED" and "COMPLETED"
C6_Witness ==
    /\ entry = "load_qinfo" /\ LoadReturned
    /\ \E i, j, k \in 1..Len(qtab) :
          /\ qtab[i].State = S_CANCELLED_by_uid /\ qinfo.rows[i].State = S_CANCELLED
          /\ qtab[j].State = S_CANCELLED /\ qinfo.rows[j].State = S_CANCELLED
          /\ qtab[k].State = S_COMPLETED /\ qinfo.rows[k].State = S_COMPLETED

\* e is three colon-separated fields of digits
ThreeIntFields(e) ==
    /\ Cardinality({n \in 1..Len(e) : e[n] = ":"}) = 2
    /\ \A n \in 1..Len(e) : e[n] = ":" \/ IsDigit(e[n])
    /\ e[1] # ":" /\ e[Len(e)] # ":"
    /\ \A n \in 1..(Len(e) - 1) : ~(e[n] = ":" /\ e[n + 1] = ":")

\* C7: if some accounting record has an ELAPSED that is not three
\* colon-separated integer fields, load_qinfo ends in a fatal parse error and
\* returns no table; if every ELAPSED has that shape, the parse does not fail.
C7_ElapsedFatal ==
    LoadParsed =>
        IF \E i \in 1..Len(qtab) : ~ThreeIntFields(qtab[i].ELAPSED)
        THEN /\ pc = "failed" /\ error = "ValueError"
             /\ qinfo = NoTable /\ outfile = NoTable
             /\ summary = NoTable /\ stdout = NoTable
        ELSE qinfo.ok /\ error # "ValueError" /\ Len(qinfo.rows) = Len(qtab)

\* the failure on a table with a record of ELAPSED "1:30" among records that
\* parse
C7_Witness ==
    /\ entry = "load_qinfo" /\ LoadParsed
    /\ pc = "failed" /\ error = "ValueError" /\ qinfo = NoTable
    /\ \E i, j \in 1..Len(qtab) :
          qtab[i].ELAPSED = E_short /\ ThreeIntFields(qtab[j].ELAPSED)

\* the (jobdesc, job id) pairs of the dict d, item by item
RECURSIVE QueriedPairs(_)
QueriedPairs(d) ==
    IF d = <<>> THEN <<>>
    ELSE [n \in 1..Len(d[1].val) |-> <<d[1].key, d[1].val[n]>>] \o QueriedPairs(Tail(d))

\* the number of job ids the processing tables list under jobdesc
RECURSIVE QidsListed(_, _)
QidsListed(tabs, jobdesc) ==
    IF tabs = <<>> THEN 0
    ELSE SumSeq([n \in 1..Len(tabs[1]) |->
                    IF tabs[1][n].JOBDESC = jobdesc THEN Len(tabs[1][n].ALL_QIDS) ELSE 0])
         + QidsListed(Tail(tabs), jobdesc)

\* C8: the table of load_qinfo holds every record the provider returned for
\* every category, tagged with the category it was queried under, without
\* deduplication: it has as many rows as the per-category results together,
\* and a job id collected under two categories is in two rows.
C8_NoDeduplication ==
    LoadQueried =>
        /\ [i \in 1..Len(qtab) |-> <<qtab[i].JOBDESC, qtab[i].JOBID>>]
              = QueriedPairs(jobdesc_qids)
        /\ Len(qtab) = SumSeq([n \in 1..Len(jobdesc_qids) |-> Len(jobdesc_qids[n].val)])
        /\ \A d \in AllJobdescs :
              Cardinality({i \in 1..Len(qtab) : qtab[i].JOBDESC = d}) = QidsListed(ptables, d)
        /\ Cardinality({i \in 1..Len(qtab) : qtab[i].JOBDESC = "zpix"}) = Len(zpix_qids)
        /\ qinfo.ok =>
              [i \in 1..Len(qinfo.rows) |-> <<qinfo.rows[i].JOBDESC, qinfo.rows[i].JOBID>>]
                  = QueriedPairs(jobdesc_qids)

\* a returned table with one job id in two rows of two categories
C8_Witness ==
    /\ entry = "load_qinfo" /\ LoadReturned
    /\ \E i, j \in 1..Len(qinfo.rows) :
          /\ qinfo.rows[i].JOBID = qinfo.rows[j].JOBID
          /\ qinfo.rows[i].JOBDESC # qinfo.rows[j].JOBDESC

(***************************************************************************)
(* Properties of get_zpix_qids                                             *)
(***************************************************************************)

\* the healpix log paths in sorted order
PathsInOrder == <<P_none, P_us, P_12, P_3, P_dir, P_dot, P_plus, P_y>>

\* the paths whose last token is an integer, and that integer
PathQid(path) ==
    CASE path = P_12   -> 12
      [] path = P_3    -> 3
      [] path = P_dir  -> 2
      [] path = P_plus -> 7
      [] path = P_us   -> 10
      [] OTHER         -> -1

\* the ids of the first n of the matched logs, in sorted order
IdsOfFirst(n) ==
    LET matched == SelectSeq(PathsInOrder, LAMBDA f : f \in zpixlogs)
        parsed  == SelectSeq(SubSeq(matched, 1, n), LAMBDA f : PathQid(f) # -1)
    IN  [k \in 1..Len(parsed) |-> PathQid(parsed[k])]

\* C9: get_zpix_qids never fails on a log filename whose last token is not
\* an integer: it returns, in sorted filename order, the ids of the filenames
\* that parse, leaving out only the others; the ids of the filenames before
\* and after an unparseable one are unaffected.
C9_ZpixSkip ==
    /\ entry = "get_zpix_qids" => pc # "failed"
    /\ pc = "zpix_loop" =>
          /\ Len(zpixfiles) = Cardinality(zpixlogs)
          /\ zpix_qids = IdsOfFirst(zi - 1)
    /\ (entry = "get_zpix_qids" /\ pc = "done") =>
          /\ zpix_qids = IdsOfFirst(Cardinality(zpixlogs))
          /\ Len(zpix_qids) + Len(errlog) = Cardinality(zpixlogs)

\* the ids 3 and 7 returned around the skipped b/zpix-5.2.log
C9_Witness ==
    /\ entry = "get_zpix_qids" /\ pc = "done"
    /\ zpixfiles = <<P_3, P_dot, P_plus>>
    /\ zpix_qids = <<3, 7>>
    /\ errlog = <<P_dot>>

(***************************************************************************)
(* Properties of main                                                      *)
(***************************************************************************)

\* st is the last step begun
LastStep(st) == steps # <<>> /\ steps[Len(steps)] = st

\* the steps of main in their order, those not asked for left out
MainSteps ==
    <<IF args.input THEN "read_input" ELSE "load_qinfo">>
        \o (IF args.output THEN <<"write_output">> ELSE <<>>)
        \o <<"summarize">>
        \o (IF args.summary THEN <<"write_summary">> ELSE <<>>)
        \o <<"print">>

\* C10: main obtains queue_info (from --input, else load_qinfo), writes
\* --output, summarizes, writes --summary and prints, in this order; the
\* summary is printed only if every earlier step succeeded; a failure stops
\* all later steps; a run failing in summarize_qinfo or in writing --summary
\* has written --output and printed nothing; with --input, load_qinfo is
\* never invoked.
C10_MainOrder ==
    entry = "main" =>
        /\ Len(steps) <= Len(MainSteps) /\ steps = SubSeq(MainSteps, 1, Len(steps))
        /\ stdout.ok =>
              /\ steps = MainSteps
              /\ qinfo.ok /\ summary.ok /\ stdout = summary
              /\ args.output => outfile = qinfo
              /\ args.summary => sumfile = summary
        /\ pc = "failed" =>
              /\ stdout = NoTable
              /\ error = "ValueError" =>
                    LastStep("load_qinfo") /\ outfile = NoTable /\ sumfile = NoTable
              /\ error = "IndexError" =>
                    /\ LastStep("summarize") /\ sumfile = NoTable
                    /\ args.output => outfile = qinfo /\ outfile.ok
              /\ error = "OSError" =>
                    \/ LastStep("write_output") /\ outfile = NoTable /\ summary = NoTable
                    \/ /\ LastStep("write_summary") /\ sumfile = NoTable /\ summary.ok
                       /\ args.output => outfile = qinfo /\ outfile.ok
        /\ args.input =>
              /\ jobdesc_qids = <<>> /\ qtab = <<>> /\ zpixfiles = <<>> /\ errlog = <<>>
              /\ pc \notin {"load_collect", "zpix_glob", "zpix_loop", "load_query",
                            "load_derive"}

\* a run on --input that wrote --output and then failed in summarize_qinfo
C10_Witness ==
    /\ entry = "main" /\ args.input /\ args.output
    /\ pc = "failed" /\ error = "IndexError"
    /\ outfile.ok /\ outfile = qinfo
    /\ stdout = NoTable /\ sumfile = NoTable

====
